---- MODULE Spec2Model ----
(***************************************************************************)
(* Model of package validate (src/validate/validate.go): the MultiError    *)
(* aggregator, ValidateProvenanceTag, ValidateSeries, the Must wrappers    *)
(* and validateISO3166MaybeEmpty.                                          *)
(*                                                                         *)
(* Conventions.                                                            *)
(*  - An error value is a record: NilErr, an errorString made by           *)
(*    errors.New / fmt.Errorf, a MultiError (the aggregator, field errs),  *)
(*    or a joinError made by errors.Join.                                  *)
(*  - DedupHash and OriginHint are sequences of one-character strings, so  *)
(*    that the two patterns are matched character by character.            *)
(*  - A float64 is [nan, v]: v counts units of 0.0000001, nan is IEEE NaN, *)
(*    for which every ordered comparison is false.                         *)
(*  - The two non-ASCII characters of the messages are written             *)
(*    "<U+2265>" (greater-than-or-equal sign) and "<U+2013>" (en dash).    *)
(***************************************************************************)
EXTENDS Integers, Sequences, FiniteSets, TLC

VARIABLES
    rec, pc, ret, must,                  \* one record, validated then Must-ed
    m, calls, out,                       \* one MultiError driven directly
    crec, cpc, heap, cret,               \* two validator calls interleaved
    probe, other, given, icur, ipc, ime, first, second, between
                                         \* repeated calls, one after another

vars == <<rec, pc, ret, must, m, calls, out, crec, cpc, heap, cret,
          probe, other, given, icur, ipc, ime, first, second, between>>

vVars == <<rec, pc, ret, must>>
mVars == <<m, calls, out>>
cVars == <<crec, cpc, heap, cret>>
iVars == <<probe, other, given, icur, ipc, ime, first, second, between>>

-----------------------------------------------------------------------------
(* Bounds of the model *)

MaxPoints == 2

MaxAppends == 3

MaxBetween == 2

-----------------------------------------------------------------------------
(* Error values *)

NilErr == [kind |-> "nil"]

Unset == [kind |-> "unset"]

ErrorsNew(s) == [kind |-> "errorString", s |-> s]

FmtErrorf(s) == ErrorsNew(s)

GE == "<U+2265>"

EnDash == "<U+2013>"

DigitChars == <<"0", "1", "2", "3", "4", "5", "6", "7", "8", "9">>

RECURSIVE Itoa(_)
Itoa(n) == IF n < 10 THEN DigitChars[n + 1]
           ELSE Itoa(n \div 10) \o DigitChars[(n % 10) + 1]

-----------------------------------------------------------------------------
(* MultiError *)

StaleMultiError ==
    IF ime.kind = "MultiError" THEN ime
    ELSE [kind |-> "MultiError", errs |-> <<>>]

NewMultiError == [kind |-> "MultiError", errs |-> <<>>]

MultiErrorAppendFront(me, err) ==
    IF err # NilErr THEN [me EXCEPT !.errs = <<err>> \o @] ELSE me

MultiErrorAppend(me, err) ==
    IF err # NilErr THEN [me EXCEPT !.errs = Append(@, err)] ELSE me

RECURSIVE WriteErrs(_, _, _)
WriteErrs(errs, i, b) ==
    IF i > Len(errs) THEN b
    ELSE WriteErrs(errs, i + 1,
                   (IF i > 1 THEN b \o "; " ELSE b) \o errs[i].s)

MultiErrorError(me) ==
    IF Len(me.errs) = 0 THEN "" ELSE WriteErrs(me.errs, 1, "")

MultiErrorUnwrap(me) ==
    IF Len(me.errs) = 0 THEN NilErr
    ELSE [kind |-> "joinError", errs |-> me.errs]

MultiErrorNilOrErrorAlwaysM(me) == me

MultiErrorNilOrError(me) ==
    IF Len(me.errs) = 0 THEN NilErr ELSE me

-----------------------------------------------------------------------------
(* Package types: enumerations and patterns *)

AcctAgeBuckets == {"AcctAge_0_7d", "AcctAge_8_30d", "AcctAge_1_6m",
                   "AcctAge_6_24m", "AcctAge_24mPlus"}

AcctTypes == {"AcctTypePerson", "AcctTypeOrg", "AcctTypeMedia",
              "AcctTypePublicOfficial", "AcctTypeUnverified",
              "AcctTypeDeclaredAutomation"}

AutomationFlags == {"AutomationManual", "AutomationScheduled",
                    "AutomationAPICLIENT", "AutomationDeclaredBot"}

PostKinds == {"PostKindOriginal", "PostKindReshare", "PostKindQuote",
              "PostKindReply"}

ClientFamilies == {"ClientWeb", "ClientMobile", "ClientThirdParty"}

MediaProvenances == {"MediaProvC2PA", "MediaProvHash", "MediaProvNone"}

IntervalMinute == "minute"

HexChars == {"0", "1", "2", "3", "4", "5", "6", "7", "8", "9",
             "a", "b", "c", "d", "e", "f"}

UpperChars == {"A", "B", "C", "D", "E", "F", "G", "H", "I", "J", "K", "L",
               "M", "N", "O", "P", "Q", "R", "S", "T", "U", "V", "W", "X",
               "Y", "Z"}

DecimalChars == {"0", "1", "2", "3", "4", "5", "6", "7", "8", "9"}

\* ^[0-9a-f]{8}$
ReHex8MatchString(s) ==
    /\ Len(s) = 8
    /\ \A i \in 1..Len(s) : s[i] \in HexChars

\* ^[A-Z]{2}(-[A-Z0-9]{1,3})?$
ReISO3166MatchString(s) ==
    /\ Len(s) >= 2
    /\ s[1] \in UpperChars
    /\ s[2] \in UpperChars
    /\ \/ Len(s) = 2
       \/ /\ Len(s) \in 4..6
          /\ s[3] = "-"
          /\ \A i \in 4..Len(s) : s[i] \in UpperChars \cup DecimalChars

-----------------------------------------------------------------------------
(* float64 *)

F(n) == [nan |-> FALSE, v |-> n]

NaN == [nan |-> TRUE, v |-> 0]

FZero == F(0)

FOne == F(10000000)

FltLt(a, b) == ~a.nan /\ ~b.nan /\ a.v < b.v

FltGt(a, b) == ~a.nan /\ ~b.nan /\ a.v > b.v

OutOfUnitUpperExclusive(x) == FltLt(x, FZero) \/ ~FltLt(x, FOne)

OutOfUnitLowerOnly(x) == FltLt(x, FZero)

OutOfUnit(x) == FltLt(x, FZero) \/ FltGt(x, FOne)

IsZero(t) == t = 0

-----------------------------------------------------------------------------
(* validateISO3166MaybeEmpty *)

validateISO3166MaybeEmpty(code) ==
    IF code = <<>> THEN NilErr
    ELSE IF ~ReISO3166MatchString(code)
         THEN FmtErrorf("origin_hint/country must match ISO-3166 pattern (e.g., US or US-CA)")
         ELSE NilErr

-----------------------------------------------------------------------------
(* ValidateProvenanceTag: statement k of the body, applied to aggregator me *)

NumTagStmts == 8

TagStmt(k, t, me) ==
    CASE k = 1 -> IF t.AcctAgeBucket \in AcctAgeBuckets THEN me
                  ELSE MultiErrorAppend(me, ErrorsNew("invalid acct_age_bucket"))
      [] k = 2 -> IF t.AcctType \in AcctTypes THEN me
                  ELSE MultiErrorAppend(me, ErrorsNew("invalid acct_type"))
      [] k = 3 -> IF t.AutomationFlag \in AutomationFlags THEN me
                  ELSE MultiErrorAppend(me, ErrorsNew("invalid automation_flag"))
      [] k = 4 -> IF t.PostKind \in PostKinds THEN me
                  ELSE MultiErrorAppend(me, ErrorsNew("invalid post_kind"))
      [] k = 5 -> IF t.ClientFamily \in ClientFamilies THEN me
                  ELSE MultiErrorAppend(me, ErrorsNew("invalid client_family"))
      [] k = 6 -> IF t.MediaProvenance \in MediaProvenances THEN me
                  ELSE MultiErrorAppend(me, ErrorsNew("invalid media_provenance"))
      [] k = 7 -> IF ~ReHex8MatchString(t.DedupHash)
                  THEN MultiErrorAppend(me, ErrorsNew("dedup_hash must be 8 lowercase hex chars"))
                  ELSE me
      [] k = 8 -> LET err == validateISO3166MaybeEmpty(t.OriginHint)
                  IN  IF err # NilErr THEN MultiErrorAppend(me, err) ELSE me

-----------------------------------------------------------------------------
(* ValidateSeries: the four entity-level statements, then the loop body *)

NumSeriesStmts == 4

NumPointStmts == 6

PointsEmptyNever(s) == Len(s.Points) < 0

PointsEmpty(s) == Len(s.Points) = 0

SeriesStmt(k, s, me) ==
    CASE k = 1 -> IF s.Topic = ""
                  THEN MultiErrorAppend(me, ErrorsNew("topic must be non-empty"))
                  ELSE me
      [] k = 2 -> IF IsZero(s.GeneratedAt)
                  THEN MultiErrorAppend(me, ErrorsNew("generated_at must be set"))
                  ELSE me
      [] k = 3 -> IF s.Interval # IntervalMinute
                  THEN MultiErrorAppend(me, ErrorsNew("interval must be \"minute\""))
                  ELSE me
      [] k = 4 -> IF PointsEmpty(s)
                  THEN MultiErrorAppend(me, ErrorsNew("series must contain at least one point"))
                  ELSE me

\* i is the 0-based index of p in s.Points
PointStmt(j, i, p, me) ==
    CASE j = 1 -> IF p.Volume < 0
                  THEN MultiErrorAppend(me, FmtErrorf(
                         "points[" \o Itoa(i) \o "].volume must be " \o GE \o "0"))
                  ELSE me
      [] j = 2 -> IF OutOfUnit(p.ReshareRatio)
                  THEN MultiErrorAppend(me, FmtErrorf(
                         "points[" \o Itoa(i) \o "].reshare_ratio must be 0" \o EnDash \o "1"))
                  ELSE me
      [] j = 3 -> IF OutOfUnit(p.RecycledContentRate)
                  THEN MultiErrorAppend(me, FmtErrorf(
                         "points[" \o Itoa(i) \o "].recycled_content_rate must be 0" \o EnDash \o "1"))
                  ELSE me
      [] j = 4 -> IF OutOfUnit(p.CoordinationSignals.BurstScore)
                  THEN MultiErrorAppend(me, FmtErrorf(
                         "points[" \o Itoa(i)
                           \o "].coordination_signals.burst_score must be 0" \o EnDash \o "1"))
                  ELSE me
      [] j = 5 -> IF OutOfUnit(p.CoordinationSignals.SynchronyIndex)
                  THEN MultiErrorAppend(me, FmtErrorf(
                         "points[" \o Itoa(i)
                           \o "].coordination_signals.synchrony_index must be 0" \o EnDash \o "1"))
                  ELSE me
      [] j = 6 -> IF p.CoordinationSignals.DuplicationClusters < 0
                  THEN MultiErrorAppend(me, FmtErrorf(
                         "points[" \o Itoa(i)
                           \o "].coordination_signals.duplication_clusters must be " \o GE \o "0"))
                  ELSE me

-----------------------------------------------------------------------------
(* A validator body as a numbered run of statements; Stmt(r, n, me) is the  *)
(* n-th statement executed on record r.                                     *)

NumStmts(r) ==
    IF r.type = "ProvenanceTag" THEN NumTagStmts
    ELSE NumSeriesStmts + NumPointStmts * Len(r.Points)

Stmt(r, n, me) ==
    IF r.type = "ProvenanceTag" THEN TagStmt(n, r, me)
    ELSE IF n <= NumSeriesStmts THEN SeriesStmt(n, r, me)
    ELSE LET i == (n - NumSeriesStmts - 1) \div NumPointStmts
             j == ((n - NumSeriesStmts - 1) % NumPointStmts) + 1
         IN  PointStmt(j, i, r.Points[i + 1], me)

RECURSIVE RunStmts(_, _, _)
RunStmts(r, n, me) ==
    IF n > NumStmts(r) THEN me ELSE RunStmts(r, n + 1, Stmt(r, n, me))

ValidateProvenanceTag(t) ==
    MultiErrorNilOrError(RunStmts(t, 1, NewMultiError))

ValidateSeries(s) ==
    MultiErrorNilOrError(RunStmts(s, 1, NewMultiError))

Validate(r) ==
    IF r.type = "ProvenanceTag" THEN ValidateProvenanceTag(r) ELSE ValidateSeries(r)

\* The outcome of a Must wrapper: it panics with a value, or returns.
MustProvenanceTagNeverPanics(t) == [panicked |-> FALSE, value |-> NilErr]

MustProvenanceTag(t) ==
    LET err == ValidateProvenanceTag(t)
    IN  IF err # NilErr THEN [panicked |-> TRUE, value |-> err]
        ELSE [panicked |-> FALSE, value |-> NilErr]

MustSeries(s) ==
    LET err == ValidateSeries(s)
    IN  IF err # NilErr THEN [panicked |-> TRUE, value |-> err]
        ELSE [panicked |-> FALSE, value |-> NilErr]

\* e.Error()
RECURSIVE JoinLines(_, _)
JoinLines(errs, i) ==
    IF i > Len(errs) THEN ""
    ELSE (IF i > 1 THEN "\n" ELSE "") \o errs[i].s \o JoinLines(errs, i + 1)

ErrorText(e) ==
    CASE e.kind = "errorString" -> e.s
      [] e.kind = "MultiError"  -> MultiErrorError(e)
      [] e.kind = "joinError"   -> JoinLines(e.errs, 1)

-----------------------------------------------------------------------------
(* Records the validators are run on *)

HashSamples == {
    <<"d", "e", "a", "d", "b", "e", "e", "f">>,
    <<"0", "1", "2", "3", "4", "5", "6", "9">>,
    <<"Z", "Z", "Z", "Z", "Z", "Z", "Z", "Z">>,
    <<"D", "E", "A", "D", "B", "E", "E", "F">>,
    <<"d", "e", "a", "d", "b", "e", "e">>,
    <<"d", "e", "a", "d", "b", "e", "e", "f", "0">>,
    <<"d", "e", "a", "d", "b", "e", "e", "g">>,
    <<>> }

OriginSamples == {
    <<>>,
    <<"U", "S">>,
    <<"U", "S", "-", "C", "A">>,
    <<"G", "B", "-", "E", "N", "G">>,
    <<"u", "s">>,
    <<"U", "S", "A">>,
    <<"U", "S", "-">>,
    <<"U">> }

BaseTag == [type |-> "ProvenanceTag",
            AcctAgeBucket |-> "AcctAge_0_7d", AcctType |-> "AcctTypePerson",
            AutomationFlag |-> "AutomationManual", PostKind |-> "PostKindOriginal",
            ClientFamily |-> "ClientWeb", MediaProvenance |-> "MediaProvC2PA",
            DedupHash |-> <<"d", "e", "a", "d", "b", "e", "e", "f">>,
            OriginHint |-> <<>>]

TagSamples ==
    [type : {"ProvenanceTag"},
     AcctAgeBucket : {"AcctAge_0_7d", ""}, AcctType : {"AcctTypePerson", "bogus"},
     AutomationFlag : {"AutomationManual", ""}, PostKind : {"PostKindOriginal", "bogus"},
     ClientFamily : {"ClientWeb", ""}, MediaProvenance : {"MediaProvC2PA", "bogus"},
     DedupHash : HashSamples, OriginHint : OriginSamples]
    \cup {[BaseTag EXCEPT !.AcctAgeBucket = v] : v \in AcctAgeBuckets}
    \cup {[BaseTag EXCEPT !.AcctType = v] : v \in AcctTypes}
    \cup {[BaseTag EXCEPT !.AutomationFlag = v] : v \in AutomationFlags}
    \cup {[BaseTag EXCEPT !.PostKind = v] : v \in PostKinds}
    \cup {[BaseTag EXCEPT !.ClientFamily = v] : v \in ClientFamilies}
    \cup {[BaseTag EXCEPT !.MediaProvenance = v] : v \in MediaProvenances}

FHalf == F(5000000)

FBelowZero == F(-1)

FAboveOne == F(10000001)

Point(vol, rr, rcr, bs, si, dc) ==
    [Volume |-> vol, ReshareRatio |-> rr, RecycledContentRate |-> rcr,
     CoordinationSignals |->
        [BurstScore |-> bs, SynchronyIndex |-> si, DuplicationClusters |-> dc]]

PointSamples == {
    Point(5, FHalf, FHalf, FHalf, FHalf, 2),
    Point(0, FZero, FZero, FZero, FZero, 0),
    Point(1, FOne, FOne, FOne, FOne, 1),
    Point(0, FZero, FOne, FOne, FZero, 0),
    Point(-1, FHalf, FHalf, FHalf, FHalf, 2),
    Point(5, FBelowZero, FHalf, FHalf, FHalf, 2),
    Point(5, FHalf, FBelowZero, FHalf, FHalf, 2),
    Point(5, FHalf, FHalf, FBelowZero, FHalf, 2),
    Point(5, FHalf, FHalf, FHalf, FBelowZero, 2),
    Point(5, FAboveOne, FHalf, FHalf, FHalf, 2),
    Point(5, FHalf, FAboveOne, FHalf, FHalf, 2),
    Point(5, FHalf, FHalf, FAboveOne, FHalf, 2),
    Point(5, FHalf, FHalf, FHalf, FAboveOne, 2),
    Point(5, FHalf, FHalf, FHalf, FHalf, -1),
    Point(-1, FBelowZero, FAboveOne, FBelowZero, FAboveOne, -1),
    Point(5, NaN, FHalf, FHalf, FHalf, 2),
    Point(5, FHalf, FAboveOne, FHalf, NaN, -1) }

RECURSIVE SeqsUpTo(_, _)
SeqsUpTo(S, n) ==
    IF n = 0 THEN {<<>>}
    ELSE LET shorter == SeqsUpTo(S, n - 1)
         IN  shorter \cup {Append(q, x) : q \in shorter, x \in S}

SeriesSamples ==
    [type : {"Series"}, Topic : {"", "election"}, GeneratedAt : {0, 1700000000},
     Interval : {"minute", "hour"}, Points : SeqsUpTo(PointSamples, MaxPoints)]

-----------------------------------------------------------------------------
(* Values of the variables a specification does not use *)

NoOut == [op |-> "none", value |-> NilErr]

Calls == {1, 2}

IdleV == rec = <<>> /\ pc = "idle" /\ ret = Unset /\ must = Unset

IdleM == m = NewMultiError /\ calls = <<>> /\ out = NoOut

IdleC == /\ crec = <<>>
         /\ cpc = <<>>
         /\ heap = <<>>
         /\ cret = <<>>

IdleI == /\ probe = <<>> /\ other = <<>> /\ given = <<>>
         /\ icur = "none" /\ ipc = 0 /\ ime = Unset
         /\ first = Unset /\ second = Unset /\ between = 0

-----------------------------------------------------------------------------
(* Spec: one record, drawn at the start, is validated and then Must-ed *)

Init ==
    /\ rec \in TagSamples \cup SeriesSamples
    /\ pc = "new"
    /\ ret = Unset
    /\ must = Unset
    /\ IdleM /\ IdleC /\ IdleI

ValidateProvenanceTagCall ==
    /\ pc = "new"
    /\ rec.type = "ProvenanceTag"
    /\ ret' = ValidateProvenanceTag(rec)
    /\ pc' = "validated"
    /\ UNCHANGED <<rec, must, mVars, cVars, iVars>>

ValidateSeriesCall ==
    /\ pc = "new"
    /\ rec.type = "Series"
    /\ ret' = ValidateSeries(rec)
    /\ pc' = "validated"
    /\ UNCHANGED <<rec, must, mVars, cVars, iVars>>

MustProvenanceTagCall ==
    /\ pc = "validated"
    /\ rec.type = "ProvenanceTag"
    /\ must' = MustProvenanceTag(rec)
    /\ pc' = "done"
    /\ UNCHANGED <<rec, ret, mVars, cVars, iVars>>

MustSeriesCall ==
    /\ pc = "validated"
    /\ rec.type = "Series"
    /\ must' = MustSeries(rec)
    /\ pc' = "done"
    /\ UNCHANGED <<rec, ret, mVars, cVars, iVars>>

Next ==
    \/ ValidateProvenanceTagCall
    \/ ValidateSeriesCall
    \/ MustProvenanceTagCall
    \/ MustSeriesCall

Spec == Init /\ [][Next]_vars

-----------------------------------------------------------------------------
(* SpecME: a fresh MultiError driven by its methods *)

ErrArgs == {NilErr, ErrorsNew("a"), ErrorsNew("b"), ErrorsNew("")}

InitME ==
    /\ m = NewMultiError
    /\ calls = <<>>
    /\ out = NoOut
    /\ IdleV /\ IdleC /\ IdleI

AppendCall(err) ==
    /\ Len(calls) < MaxAppends
    /\ m' = MultiErrorAppend(m, err)
    /\ calls' = Append(calls, err)
    /\ out' = NoOut
    /\ UNCHANGED <<vVars, cVars, iVars>>

ErrorCall ==
    /\ out' = [op |-> "Error", value |-> MultiErrorError(m)]
    /\ UNCHANGED <<m, calls, vVars, cVars, iVars>>

UnwrapCall ==
    /\ out' = [op |-> "Unwrap", value |-> MultiErrorUnwrap(m)]
    /\ UNCHANGED <<m, calls, vVars, cVars, iVars>>

NilOrErrorCall ==
    /\ out' = [op |-> "NilOrError", value |-> MultiErrorNilOrError(m)]
    /\ UNCHANGED <<m, calls, vVars, cVars, iVars>>

NextME ==
    \/ \E err \in ErrArgs : AppendCall(err)
    \/ ErrorCall
    \/ UnwrapCall
    \/ NilOrErrorCall

SpecME == InitME /\ [][NextME]_vars

-----------------------------------------------------------------------------
(* SpecConc: two validator calls whose statements interleave.  Call c works *)
(* on the aggregator at heap[MeOf(c)], the local `me` of its own frame.     *)

SmallSamples == {
    BaseTag,
    [BaseTag EXCEPT !.AcctType = "bogus",
                    !.DedupHash = <<"Z", "Z", "Z", "Z", "Z", "Z", "Z", "Z">>],
    [BaseTag EXCEPT !.AcctAgeBucket = "", !.MediaProvenance = "bogus",
                    !.OriginHint = <<"u", "s">>],
    [type |-> "Series", Topic |-> "election", GeneratedAt |-> 1700000000,
     Interval |-> "minute",
     Points |-> <<Point(0, FZero, FOne, FZero, FOne, 0)>>],
    [type |-> "Series", Topic |-> "", GeneratedAt |-> 0,
     Interval |-> "hour", Points |-> <<>>],
    [type |-> "Series", Topic |-> "election", GeneratedAt |-> 1700000000,
     Interval |-> "hour",
     Points |-> <<Point(-1, FHalf, FHalf, FHalf, FHalf, 2),
                  Point(5, FAboveOne, FHalf, FBelowZero, FHalf, -1)>>] }

SharedMe(c) == 1

MeOf(c) == c

InitConc ==
    /\ crec \in [Calls -> SmallSamples]
    /\ cpc = [c \in Calls |-> 0]
    /\ heap = [a \in Calls |-> NewMultiError]
    /\ cret = [c \in Calls |-> Unset]
    /\ IdleV /\ IdleM /\ IdleI

\* var me MultiError
Begin(c) ==
    /\ cpc[c] = 0
    /\ heap' = [heap EXCEPT ![MeOf(c)] = NewMultiError]
    /\ cpc' = [cpc EXCEPT ![c] = 1]
    /\ UNCHANGED <<crec, cret, vVars, mVars, iVars>>

Step(c) ==
    /\ cpc[c] \in 1..NumStmts(crec[c])
    /\ heap' = [heap EXCEPT ![MeOf(c)] = Stmt(crec[c], cpc[c], @)]
    /\ cpc' = [cpc EXCEPT ![c] = @ + 1]
    /\ UNCHANGED <<crec, cret, vVars, mVars, iVars>>

\* return me.NilOrError()
Return(c) ==
    /\ cpc[c] = NumStmts(crec[c]) + 1
    /\ cret' = [cret EXCEPT ![c] = MultiErrorNilOrError(heap[MeOf(c)])]
    /\ cpc' = [cpc EXCEPT ![c] = @ + 1]
    /\ UNCHANGED <<crec, heap, vVars, mVars, iVars>>

NextConc ==
    \/ \E c \in Calls : Begin(c)
    \/ \E c \in Calls : Step(c)
    \/ \E c \in Calls : Return(c)

SpecConc == InitConc /\ [][NextConc]_vars

-----------------------------------------------------------------------------------------------------------------------------------------------------
(* SpecIdem: validator calls made one after another by one caller.  The     *)
(* caller holds two records, probe and other, and passes a pointer to one   *)
(* of them to each call; given is probe as the caller built it.  A call     *)
(* declares its aggregator (ime), executes its statements one by one on the *)
(* record the pointer leads to, and returns.  probe is validated (first),   *)
(* other is validated up to MaxBetween times, and probe is validated again  *)
(* (second).                                                                *)

Pointee(which) == IF which = "probe" THEN probe ELSE other

\* The record after statement n of a validator: every statement reads
\* through t or s, none assigns through it.
RecordAfterStmtTopicCleared(r, n) ==
    IF r.type = "Series" /\ n = 1 /\ r.Topic = "" THEN [r EXCEPT !.Topic = "untitled"]
    ELSE r

RecordAfterStmt(r, n) == r

InitIdem ==
    /\ probe \in SmallSamples
    /\ other \in SmallSamples
    /\ given = probe
    /\ icur = "none"
    /\ ipc = 0
    /\ ime = Unset
    /\ first = Unset
    /\ second = Unset
    /\ between = 0
    /\ IdleV /\ IdleM /\ IdleC

\* the call is entered: var me MultiError
IdemBegin(which) ==
    /\ ipc = 0
    /\ second = Unset
    /\ which = "other" => between < MaxBetween
    /\ icur' = which
    /\ ime' = NewMultiError
    /\ ipc' = 1
    /\ UNCHANGED <<probe, other, given, first, second, between, vVars, mVars, cVars>>

IdemStep ==
    /\ ipc \in 1..NumStmts(Pointee(icur))
    /\ ime' = Stmt(Pointee(icur), ipc, ime)
    /\ probe' = IF icur = "probe" THEN RecordAfterStmt(probe, ipc) ELSE probe
    /\ other' = IF icur = "other" THEN RecordAfterStmt(other, ipc) ELSE other
    /\ ipc' = ipc + 1
    /\ UNCHANGED <<given, icur, first, second, between, vVars, mVars, cVars>>

\* return me.NilOrError()
IdemReturn ==
    /\ ipc >= 1
    /\ ipc = NumStmts(Pointee(icur)) + 1
    /\ LET err == MultiErrorNilOrError(ime)
       IN  /\ first' = IF icur = "probe" /\ first = Unset THEN err ELSE first
           /\ second' = IF icur = "probe" /\ first # Unset THEN err ELSE second
    /\ between' = IF icur = "other" THEN between + 1 ELSE between
    /\ ipc' = 0
    /\ UNCHANGED <<probe, other, given, icur, ime, vVars, mVars, cVars>>

NextIdem ==
    \/ \E which \in {"probe", "other"} : IdemBegin(which)
    \/ IdemStep
    \/ IdemReturn

SpecIdem == InitIdem /\ [][NextIdem]_vars

-----------------------------------------------------------------------------
(* The invariants of the records as the specification lists them, and the   *)
(* failure description each violated field is to produce, in check order.   *)

InUnit(x) == ~x.nan /\ x.v >= 0 /\ x.v <= 10000000

Finding(field, bad, desc) == [field |-> field, bad |-> bad, desc |-> desc]

TagFindings(t) == <<
    Finding("acct_age_bucket", t.AcctAgeBucket \notin AcctAgeBuckets,
            "invalid " \o "acct_age_bucket"),
    Finding("acct_type", t.AcctType \notin AcctTypes, "invalid " \o "acct_type"),
    Finding("automation_flag", t.AutomationFlag \notin AutomationFlags,
            "invalid " \o "automation_flag"),
    Finding("post_kind", t.PostKind \notin PostKinds, "invalid " \o "post_kind"),
    Finding("client_family", t.ClientFamily \notin ClientFamilies,
            "invalid " \o "client_family"),
    Finding("media_provenance", t.MediaProvenance \notin MediaProvenances,
            "invalid " \o "media_provenance"),
    Finding("dedup_hash", ~ReHex8MatchString(t.DedupHash),
            "dedup_hash" \o " must be 8 lowercase hex chars"),
    Finding("origin_hint",
            t.OriginHint # <<>> /\ ~ReISO3166MatchString(t.OriginHint),
            "origin_hint" \o "/country must match ISO-3166 pattern (e.g., US or US-CA)") >>

FloatFields == {"reshare_ratio", "recycled_content_rate",
                "coordination_signals.burst_score",
                "coordination_signals.synchrony_index"}

FieldVal(p, f) ==
    CASE f = "reshare_ratio" -> p.ReshareRatio
      [] f = "recycled_content_rate" -> p.RecycledContentRate
      [] f = "coordination_signals.burst_score" -> p.CoordinationSignals.BurstScore
      [] f = "coordination_signals.synchrony_index" -> p.CoordinationSignals.SynchronyIndex

\* i is 0-based
RangeDesc(i, f) == "points[" \o ToString(i) \o "]." \o f \o " must be 0" \o EnDash \o "1"

CountDesc(i, f) == "points[" \o ToString(i) \o "]." \o f \o " must be " \o GE \o "0"

PointFindings(i, p) == <<
    Finding("volume", p.Volume < 0, CountDesc(i, "volume")),
    Finding("reshare_ratio", ~InUnit(p.ReshareRatio), RangeDesc(i, "reshare_ratio")),
    Finding("recycled_content_rate", ~InUnit(p.RecycledContentRate),
            RangeDesc(i, "recycled_content_rate")),
    Finding("coordination_signals.burst_score", ~InUnit(p.CoordinationSignals.BurstScore),
            RangeDesc(i, "coordination_signals.burst_score")),
    Finding("coordination_signals.synchrony_index",
            ~InUnit(p.CoordinationSignals.SynchronyIndex),
            RangeDesc(i, "coordination_signals.synchrony_index")),
    Finding("coordination_signals.duplication_clusters",
            p.CoordinationSignals.DuplicationClusters < 0,
            CountDesc(i, "coordination_signals.duplication_clusters")) >>

PointsEmptyDesc == "series must contain at least one " \o "point"

EntityFindings(s) == <<
    Finding("topic", s.Topic = "", "topic" \o " must be non-empty"),
    Finding("generated_at", s.GeneratedAt = 0, "generated_at" \o " must be set"),
    Finding("interval", s.Interval # "minute", "interval" \o " must be \"minute\""),
    Finding("points", Len(s.Points) = 0, PointsEmptyDesc) >>

RECURSIVE AllPointFindings(_, _)
AllPointFindings(points, i) ==
    IF i >= Len(points) THEN <<>>
    ELSE PointFindings(i, points[i + 1]) \o AllPointFindings(points, i + 1)

Findings(r) ==
    IF r.type = "ProvenanceTag" THEN TagFindings(r)
    ELSE EntityFindings(r) \o AllPointFindings(r.Points, 0)

IsBad(f) == f.bad

Violations(r) == SelectSeq(Findings(r), IsBad)

ValidRecord(r) == Violations(r) = <<>>

RECURSIVE JoinSemi(_)
JoinSemi(fs) ==
    IF fs = <<>> THEN ""
    ELSE IF Len(fs) = 1 THEN fs[1].desc
    ELSE fs[1].desc \o "; " \o JoinSemi(Tail(fs))

ErrsOf(e) == IF e.kind = "MultiError" THEN e.errs ELSE <<>>

Occurrences(e, desc) == Cardinality({k \in 1..Len(ErrsOf(e)) : ErrsOf(e)[k].s = desc})

HasNaN(r) ==
    /\ r.type = "Series"
    /\ \E i \in 1..Len(r.Points) : \E f \in FloatFields : FieldVal(r.Points[i], f).nan

Validated == pc \in {"validated", "done"}

-----------------------------------------------------------------------------
(* Claims checked under Spec *)

\* C1: a record that satisfies every listed invariant is accepted: the
\* validator for its type returns nil.
C1_ValidRecordReturnsNil ==
    (Validated /\ ValidRecord(rec)) => ret = NilErr

C1_Witness ==
    /\ Validated
    /\ ValidRecord(rec)
    /\ rec.type = "Series"
    /\ Len(rec.Points) = 2
    /\ rec.Points[1].ReshareRatio = FOne
    /\ rec.Points[2].ReshareRatio = FZero

\* C2: a record with N >= 1 violated invariants yields a non-nil error of
\* exactly N descriptions, one per violation, joined by "; " in check order.
C2_EveryViolationReportedInOrder ==
    (Validated /\ Len(Violations(rec)) >= 1) =>
        /\ ret.kind = "MultiError"
        /\ Len(ret.errs) = Len(Violations(rec))
        /\ ErrorText(ret) = JoinSemi(Violations(rec))

\* The same statement restricted to records that hold no NaN: it holds, so
\* NaN is the only input on which C2 and C3 fail.
EveryViolationReportedUnlessNaN ==
    (Validated /\ ~HasNaN(rec)) =>
        /\ ret = NilErr <=> Violations(rec) = <<>>
        /\ Len(ErrsOf(ret)) = Len(Violations(rec))
        /\ ret # NilErr => ErrorText(ret) = JoinSemi(Violations(rec))

\* The example of the specification: AcctType outside its enumeration and
\* DedupHash "ZZZZZZZZ", all else valid.
ExampleTwoTagFailures ==
    (/\ Validated
     /\ rec = [BaseTag EXCEPT !.AcctType = "bogus",
                              !.DedupHash = <<"Z", "Z", "Z", "Z", "Z", "Z", "Z", "Z">>])
    => /\ ret # NilErr
       /\ ErrorText(ret) = "invalid acct_type; dedup_hash must be 8 lowercase hex chars"

\* C3: a record with exactly one violated field yields an error of exactly
\* one description, the one that names that field.
C3_SingleViolationNamesField ==
    (Validated /\ Len(Violations(rec)) = 1) =>
        /\ ret.kind = "MultiError"
        /\ Len(ret.errs) = 1
        /\ ret.errs[1].s = Violations(rec)[1].desc

\* C6 as stated: a Series with no points yields exactly one failure, the
\* "must contain at least one point" failure.
C6_EmptyPointsExactlyOneFailure ==
    (Validated /\ rec.type = "Series" /\ rec.Points = << >>) =>
        /\ Len(ErrsOf(ret)) = 1
        /\ ErrsOf(ret)[1].s = PointsEmptyDesc

PerPointDescs ==
    {RangeDesc(i, f) : i \in 0..MaxPoints, f \in FloatFields}
    \cup {CountDesc(i, f) : i \in 0..MaxPoints,
                            f \in {"volume", "coordination_signals.duplication_clusters"}}

\* C6 amended: a Series with no points yields the "must contain at least one
\* point" failure exactly once, as the last failure, and no per-point
\* failure; it is the only failure when topic, timestamp and interval are
\* valid, and otherwise follows the failures of those fields.
C6_EmptyPointsOneSuchFailureNoPerPoint ==
    (Validated /\ rec.type = "Series" /\ rec.Points = << >>) =>
        /\ Occurrences(ret, PointsEmptyDesc) = 1
        /\ ErrsOf(ret)[Len(ErrsOf(ret))].s = PointsEmptyDesc
        /\ \A k \in 1..Len(ErrsOf(ret)) : ErrsOf(ret)[k].s \notin PerPointDescs
        /\ Len(ErrsOf(ret)) =
             1 + Cardinality({k \in 1..3 : EntityFindings(rec)[k].bad})
        /\ (rec.Topic # "" /\ rec.GeneratedAt # 0 /\ rec.Interval = "minute")
              => ErrsOf(ret) = <<ErrorsNew(PointsEmptyDesc)>>

C6_Witness ==
    /\ Validated
    /\ rec.type = "Series"
    /\ rec.Points = << >>
    /\ rec.Topic # "" /\ rec.GeneratedAt # 0 /\ rec.Interval = "minute"
    /\ ErrsOf(ret) = <<ErrorsNew(PointsEmptyDesc)>>

\* C7: the four range checks are inclusive at both ends: for every point, a
\* value of exactly 0 or exactly 1 yields no failure for that field, and a
\* value of -0.0000001 or 1.0000001 yields that field's failure for that
\* point index exactly once.
C7_RangeBoundsInclusive ==
    (Validated /\ rec.type = "Series") =>
        \A i \in 1..Len(rec.Points) : \A f \in FloatFields :
            LET x == FieldVal(rec.Points[i], f)
            IN  /\ x \in {FZero, FOne} => Occurrences(ret, RangeDesc(i - 1, f)) = 0
                /\ x \in {FBelowZero, FAboveOne} =>
                       Occurrences(ret, RangeDesc(i - 1, f)) = 1

C7_Witness ==
    /\ Validated
    /\ rec.type = "Series"
    /\ Len(rec.Points) = 2
    /\ rec.Points[1].CoordinationSignals.BurstScore = FOne
    /\ rec.Points[1].CoordinationSignals.SynchronyIndex = FZero
    /\ ret.kind = "MultiError"
    /\ rec.Points[2].RecycledContentRate = FAboveOne
    /\ rec.Points[2].CoordinationSignals.BurstScore = FBelowZero
    /\ Occurrences(ret, RangeDesc(1, "recycled_content_rate")) = 1
    /\ Occurrences(ret, RangeDesc(0, "coordination_signals.burst_score")) = 0

\* C9: a Must wrapper panics exactly when the validator of the same record
\* returns a non-nil error, the panic value is that error, and it returns
\* normally for every record the validator accepts.
C9_MustPanicsIffValidatorFails ==
    pc = "done" =>
        /\ must.panicked <=> ret # NilErr
        /\ must.panicked => must.value = ret
        /\ ret = NilErr => must = [panicked |-> FALSE, value |-> NilErr]

C9_Witness ==
    /\ pc = "done"
    /\ rec.type = "ProvenanceTag"
    /\ must.panicked
    /\ must.value = ret
    /\ Len(ret.errs) = 2

-----------------------------------------------------------------------------
(* Claims checked under SpecME *)

IsNonNil(e) == e # NilErr

NonNilCalls == SelectSeq(calls, IsNonNil)

RECURSIVE JoinMsgs(_)
JoinMsgs(es) ==
    IF es = <<>> THEN ""
    ELSE IF Len(es) = 1 THEN es[1].s
    ELSE es[1].s \o "; " \o JoinMsgs(Tail(es))

\* C4: NilOrError returns nil exactly when no non-nil error was appended;
\* otherwise it returns the aggregator itself, which then wraps at least one
\* error.
C4_NilOrErrorNilIffNothingAppended ==
    out.op = "NilOrError" =>
        /\ out.value = NilErr <=> (\A k \in 1..Len(calls) : calls[k] = NilErr)
        /\ out.value # NilErr => (out.value = m /\ Len(out.value.errs) >= 1)

C4_Witness ==
    /\ out.op = "NilOrError"
    /\ Len(calls) >= 2
    /\ \A k \in 1..Len(calls) : calls[k] = NilErr
    /\ out.value = NilErr

\* C5: the recorded list is the subsequence of non-nil arguments in call
\* order, and Error() is their messages joined by "; " in that order, the
\* empty string when nothing was recorded.
C5_AppendKeepsOrderErrorJoins ==
    /\ m.errs = NonNilCalls
    /\ out.op = "Error" => out.value = JoinMsgs(NonNilCalls)
    /\ (out.op = "Error" /\ NonNilCalls = <<>>) => out.value = ""

C5_Witness ==
    /\ out.op = "Error"
    /\ calls = <<ErrorsNew("b"), NilErr, ErrorsNew("a")>>
    /\ out.value = "b; a"

\* An Append never removes or reorders what was recorded before it.
AppendOnlyExtends ==
    [][\A k \in 1..Len(m.errs) : Len(m'.errs) >= k /\ m'.errs[k] = m.errs[k]]_vars

-----------------------------------------------------------------------------
(* Claims checked under SpecConc *)

RECURSIVE RunPrefix(_, _, _, _)
RunPrefix(r, n, upto, me) ==
    IF n >= upto THEN me ELSE RunPrefix(r, n + 1, upto, Stmt(r, n, me))

\* C8: calls that interleave do not interfere: at every point a call's
\* aggregator holds what the statements it has executed so far produce when
\* run alone, and the result it returns is the result of running it alone.
C8_ConcurrentCallsIndependent ==
    \A c \in Calls :
        /\ cpc[c] \in 1..(NumStmts(crec[c]) + 1) =>
               heap[c] = RunPrefix(crec[c], 1, cpc[c],
                                   [kind |-> "MultiError", errs |-> <<>>])
        /\ cret[c] # Unset => cret[c] = Validate(crec[c])

C8_Witness ==
    /\ cret[1] # Unset /\ cret[2] # Unset
    /\ cret[1] # NilErr /\ cret[2] # NilErr
    /\ cret[1] # cret[2]
    /\ Len(cret[1].errs) >= 2

-----------------------------------------------------------------------------
(* Claims checked under SpecIdem *)

\* C10: a validator's result depends only on the record passed in:
\* validation leaves the record as the caller built it, and validating it
\* again, with other validations in between, gives nil both times or the
\* same message (and the same number of failures) both times.
C10_SameRecordSameResult ==
    /\ probe = given
    /\ second # Unset =>
        /\ first = NilErr <=> second = NilErr
        /\ first # NilErr => ErrorText(first) = ErrorText(second)
        /\ Len(ErrsOf(second)) = Len(ErrsOf(first))

C10_Witness ==
    /\ second # Unset
    /\ second # NilErr
    /\ between = MaxBetween
    /\ other # probe
    /\ Len(second.errs) >= 3
    /\ ErrorText(second) = ErrorText(first)

====
